---- MODULE Spec2Model ----
(***************************************************************************)
(* Model of package queue (queue/types.go): the catalogue of queue name    *)
(* variables, the message record types with their json struct tags, and    *)
(* the Manager handle.                                                     *)
(*                                                                         *)
(* The record types are plain Go structs; their wire form is what Go's     *)
(* encoding/json produces from the struct tags (key names, omitempty) and  *)
(* the field types.  Go values are tagged with their dynamic kind, JSON    *)
(* values with their JSON type, so that a conversion that changes the      *)
(* kind of a value (int -> number -> float64) is visible.                  *)
(* Numbers are kept exact: a number is stored as twice its value (n2), so  *)
(* that 1.5 is n2 = 3 and the integer 6 is n2 = 12.                        *)
(***************************************************************************)
EXTENDS Integers, Sequences, FiniteSets, TLC

\* Longest []string value drawn as an input.
MaxListLen == 1
\* Most keys in a map value drawn as an input.
MaxMapKeys == 1
\* Deepest nesting of lists and maps in a map[string]interface{} value drawn as
\* an input.
MaxDepth == 1
\* Most assignments user code makes to queue name variables in one run.
MaxAssign == 1
\* Most publish / close calls on one Manager in one run.
MaxCalls == 2

VARIABLES
  names,    \* the package-level queue name variables: purpose -> string
  nassign,  \* assignments made to queue name variables so far
  schema,   \* the record type in play
  rec,      \* the Go record built by the producer
  qname,    \* the queue name read for the record's purpose
  wire,     \* the payload
  origin,   \* "self": payload is the encoding of rec; "foreign": another producer's
  out,      \* the record the consumer decoded
  err,      \* the error of the decode
  pc,       \* position in the build / encode / decode flow
  mgr,      \* the Manager handle
  conn,     \* the broker connection the Manager holds
  ret,      \* result of the last Manager operation
  ncalls    \* Manager operations called so far

vars == <<names, nassign, schema, rec, qname, wire, origin, out, err, pc,
          mgr, conn, ret, ncalls>>

codecVars == <<schema, rec, qname, wire, origin, out, err, pc>>
mgrVars == <<mgr, conn, ret, ncalls>>

(***************************************************************************)
(* Queue catalogue (types.go 12-39)                                        *)
(***************************************************************************)
Purposes ==
  {"DatabaseFileAddQueue", "IpfsPinQueue", "IpfsFileQueue", "IpfsClusterPinQueue",
   "EmailSendQueue", "IpnsEntryQueue", "IpfsKeyCreationQueue", "PaymentCreationQueue",
   "PaymentConfirmationQueue", "DashPaymentConfirmationQueue", "MongoUpdateQueue",
   "ZoneCreationQueue", "RecordCreationQueue"}

\* A copy-paste slip in the catalogue: the cluster queue given the pin queue's name.
QueueNameDup(p) ==
  CASE p = "DatabaseFileAddQueue" -> "dfa-queue"
    [] p = "IpfsPinQueue" -> "ipfs-pin-queue"
    [] p = "IpfsFileQueue" -> "ipfs-file-queue"
    [] p = "IpfsClusterPinQueue" -> "ipfs-pin-queue"
    [] p = "EmailSendQueue" -> "email-send-queue"
    [] p = "IpnsEntryQueue" -> "ipns-entry-queue"
    [] p = "IpfsKeyCreationQueue" -> "ipfs-key-creation-queue"
    [] p = "PaymentCreationQueue" -> "payment-creation-queue"
    [] p = "PaymentConfirmationQueue" -> "payment-confirmation-queue"
    [] p = "DashPaymentConfirmationQueue" -> "dash-payment-confirmation-queue"
    [] p = "MongoUpdateQueue" -> "mongo-update-queue"
    [] p = "ZoneCreationQueue" -> "zone-creation-queue"
    [] p = "RecordCreationQueue" -> "record-creation-queue"

\* A copy-paste slip in the catalogue: the dash payment confirmation queue given
\* the payment confirmation queue's name.
QueueNamePaymentDup(p) ==
  CASE p = "DatabaseFileAddQueue" -> "dfa-queue"
    [] p = "IpfsPinQueue" -> "ipfs-pin-queue"
    [] p = "IpfsFileQueue" -> "ipfs-file-queue"
    [] p = "IpfsClusterPinQueue" -> "ipfs-cluster-add-queue"
    [] p = "EmailSendQueue" -> "email-send-queue"
    [] p = "IpnsEntryQueue" -> "ipns-entry-queue"
    [] p = "IpfsKeyCreationQueue" -> "ipfs-key-creation-queue"
    [] p = "PaymentCreationQueue" -> "payment-creation-queue"
    [] p = "PaymentConfirmationQueue" -> "payment-confirmation-queue"
    [] p = "DashPaymentConfirmationQueue" -> "payment-confirmation-queue"
    [] p = "MongoUpdateQueue" -> "mongo-update-queue"
    [] p = "ZoneCreationQueue" -> "zone-creation-queue"
    [] p = "RecordCreationQueue" -> "record-creation-queue"

\* The initial value of each queue name variable.
QueueName(p) ==
  CASE p = "DatabaseFileAddQueue" -> "dfa-queue"
    [] p = "IpfsPinQueue" -> "ipfs-pin-queue"
    [] p = "IpfsFileQueue" -> "ipfs-file-queue"
    [] p = "IpfsClusterPinQueue" -> "ipfs-cluster-add-queue"
    [] p = "EmailSendQueue" -> "email-send-queue"
    [] p = "IpnsEntryQueue" -> "ipns-entry-queue"
    [] p = "IpfsKeyCreationQueue" -> "ipfs-key-creation-queue"
    [] p = "PaymentCreationQueue" -> "payment-creation-queue"
    [] p = "PaymentConfirmationQueue" -> "payment-confirmation-queue"
    [] p = "DashPaymentConfirmationQueue" -> "dash-payment-confirmation-queue"
    [] p = "MongoUpdateQueue" -> "mongo-update-queue"
    [] p = "ZoneCreationQueue" -> "zone-creation-queue"
    [] p = "RecordCreationQueue" -> "record-creation-queue"

(***************************************************************************)
(* Message record types (types.go 77-206): one entry per struct field, in  *)
(* declaration order: Go field name, json key, Go type, omitempty.         *)
(***************************************************************************)
F(name, key, type, omit) == [name |-> name, key |-> key, type |-> type, omit |-> omit]

IPFSKeyCreation ==
  << F("UserName", "user_name", "string", FALSE),
     F("Name", "name", "string", FALSE),
     F("Type", "type", "string", FALSE),
     F("Size", "size", "int", FALSE),
     F("NetworkName", "network_name", "string", FALSE),
     F("CreditCost", "credit_cost", "float64", FALSE) >>

\* A copy-paste slip in the tags: NetworkName carries UserName's key.
IPFSPinDupTag ==
  << F("CID", "cid", "string", FALSE),
     F("NetworkName", "user_name", "string", FALSE),
     F("UserName", "user_name", "string", FALSE),
     F("HoldTimeInMonths", "hold_time_in_months", "int64", FALSE),
     F("CreditCost", "credit_cost", "float64", FALSE) >>

IPFSPin ==
  << F("CID", "cid", "string", FALSE),
     F("NetworkName", "network_name", "string", FALSE),
     F("UserName", "user_name", "string", FALSE),
     F("HoldTimeInMonths", "hold_time_in_months", "int64", FALSE),
     F("CreditCost", "credit_cost", "float64", FALSE) >>

\* The hold time unified with the other schemas: an int64 instead of a string.
IPFSFileIntHold ==
  << F("MinioHostIP", "minio_host_ip", "string", FALSE),
     F("FileName", "file_name", "string", TRUE),
     F("FileSize", "file_size", "int64", TRUE),
     F("BucketName", "bucket_name", "string", FALSE),
     F("ObjectName", "object_name", "string", FALSE),
     F("UserName", "user_name", "string", FALSE),
     F("NetworkName", "network_name", "string", FALSE),
     F("HoldTimeInMonths", "hold_time_in_months", "int64", FALSE),
     F("CreditCost", "credit_cost", "float64", FALSE),
     F("Encrypted", "encrypted", "bool", FALSE) >>

IPFSFile ==
  << F("MinioHostIP", "minio_host_ip", "string", FALSE),
     F("FileName", "file_name", "string", TRUE),
     F("FileSize", "file_size", "int64", TRUE),
     F("BucketName", "bucket_name", "string", FALSE),
     F("ObjectName", "object_name", "string", FALSE),
     F("UserName", "user_name", "string", FALSE),
     F("NetworkName", "network_name", "string", FALSE),
     F("HoldTimeInMonths", "hold_time_in_months", "string", FALSE),
     F("CreditCost", "credit_cost", "float64", FALSE),
     F("Encrypted", "encrypted", "bool", FALSE) >>

IPFSClusterPin ==
  << F("CID", "cid", "string", FALSE),
     F("NetworkName", "network_name", "string", FALSE),
     F("UserName", "user_name", "string", FALSE),
     F("HoldTimeInMonths", "hold_time_in_months", "int64", FALSE),
     F("CreditCost", "credit_cost", "float64", FALSE) >>

DatabaseFileAdd ==
  << F("Hash", "hash", "string", FALSE),
     F("HoldTimeInMonths", "hold_time_in_months", "int64", FALSE),
     F("UserName", "user_name", "string", FALSE),
     F("NetworkName", "network_name", "string", FALSE),
     F("CreditCost", "credit_cost", "float64", FALSE) >>

\* The life time tagged without its underscore.
IPNSUpdateLifetimeTag ==
  << F("CID", "content_hash", "string", FALSE),
     F("IPNSHash", "ipns_hash", "string", FALSE),
     F("LifeTime", "lifetime", "string", FALSE),
     F("TTL", "ttl", "string", FALSE),
     F("Key", "key", "string", FALSE),
     F("Resolve", "resolve", "bool", FALSE),
     F("UserName", "user_name", "string", FALSE),
     F("NetworkName", "network_name", "string", FALSE),
     F("CreditCost", "credit_cost", "float64", FALSE) >>

IPNSUpdate ==
  << F("CID", "content_hash", "string", FALSE),
     F("IPNSHash", "ipns_hash", "string", FALSE),
     F("LifeTime", "life_time", "string", FALSE),
     F("TTL", "ttl", "string", FALSE),
     F("Key", "key", "string", FALSE),
     F("Resolve", "resolve", "bool", FALSE),
     F("UserName", "user_name", "string", FALSE),
     F("NetworkName", "network_name", "string", FALSE),
     F("CreditCost", "credit_cost", "float64", FALSE) >>

\* The emails tag without omitempty.
EmailSendNoOmit ==
  << F("Subject", "subject", "string", FALSE),
     F("Content", "content", "string", FALSE),
     F("ContentType", "content_type", "string", FALSE),
     F("UserNames", "user_names", "[]string", FALSE),
     F("Emails", "emails", "[]string", FALSE) >>

EmailSend ==
  << F("Subject", "subject", "string", FALSE),
     F("Content", "content", "string", FALSE),
     F("ContentType", "content_type", "string", FALSE),
     F("UserNames", "user_names", "[]string", FALSE),
     F("Emails", "emails", "[]string", TRUE) >>

IPNSEntry ==
  << F("CID", "cid", "string", FALSE),
     F("LifeTime", "life_time", "time.Duration", FALSE),
     F("TTL", "ttl", "time.Duration", FALSE),
     F("Resolve", "resolve", "bool", FALSE),
     F("Key", "key", "string", FALSE),
     F("UserName", "user_name", "string", FALSE),
     F("NetworkName", "network_name", "string", FALSE),
     F("CreditCost", "credit_cost", "float64", FALSE) >>

\* The user name tagged without its underscore.
PaymentCreationUserTag ==
  << F("TxHash", "tx_hash", "string", FALSE),
     F("Blockchain", "blockchain", "string", FALSE),
     F("UserName", "username", "string", FALSE) >>

PaymentCreation ==
  << F("TxHash", "tx_hash", "string", FALSE),
     F("Blockchain", "blockchain", "string", FALSE),
     F("UserName", "user_name", "string", FALSE) >>

DashPaymenConfirmation ==
  << F("UserName", "user_name", "string", FALSE),
     F("PaymentForwardID", "payment_forward_id", "string", FALSE),
     F("PaymentNumber", "payment_number", "int64", FALSE) >>

PaymentConfirmation ==
  << F("UserName", "user_name", "string", FALSE),
     F("PaymentNumber", "payment_number", "int64", FALSE) >>

MongoUpdate ==
  << F("DatabaseName", "database_name", "string", FALSE),
     F("CollectionName", "collection_name", "string", FALSE),
     F("Fields", "fields", "map[string]string", FALSE) >>

ZoneCreation ==
  << F("Name", "name", "string", FALSE),
     F("ManagerKeyName", "manager_key_name", "string", FALSE),
     F("ZoneKeyName", "zone_key_name", "string", FALSE),
     F("UserName", "user_name", "string", FALSE) >>

RecordCreation ==
  << F("ZoneName", "zone_name", "string", FALSE),
     F("RecordName", "record_name", "string", FALSE),
     F("RecordKeyName", "record_key_name", "string", FALSE),
     F("MetaData", "meta_data", "map[string]interface{}", FALSE),
     F("UserName", "user_name", "string", FALSE) >>

Schemas ==
  {"IPFSKeyCreation", "IPFSPin", "IPFSFile", "IPFSClusterPin", "DatabaseFileAdd",
   "IPNSUpdate", "EmailSend", "IPNSEntry", "PaymentCreation", "DashPaymenConfirmation",
   "PaymentConfirmation", "MongoUpdate", "ZoneCreation", "RecordCreation"}

\* The declared fields of record type s.
Struct(s) ==
  CASE s = "IPFSKeyCreation" -> IPFSKeyCreation
    [] s = "IPFSPin" -> IPFSPin
    [] s = "IPFSFile" -> IPFSFile
    [] s = "IPFSClusterPin" -> IPFSClusterPin
    [] s = "DatabaseFileAdd" -> DatabaseFileAdd
    [] s = "IPNSUpdate" -> IPNSUpdate
    [] s = "EmailSend" -> EmailSend
    [] s = "IPNSEntry" -> IPNSEntry
    [] s = "PaymentCreation" -> PaymentCreation
    [] s = "DashPaymenConfirmation" -> DashPaymenConfirmation
    [] s = "PaymentConfirmation" -> PaymentConfirmation
    [] s = "MongoUpdate" -> MongoUpdate
    [] s = "ZoneCreation" -> ZoneCreation
    [] s = "RecordCreation" -> RecordCreation

Range(f) == {f[i] : i \in DOMAIN f}

\* encoding/json drops every field whose key is carried by another field of the
\* same struct (both tagged, same depth): neither is encoded or decoded.
FieldsOf(s) ==
  SelectSeq(Struct(s),
            LAMBDA f : Cardinality({i \in DOMAIN Struct(s) : Struct(s)[i].key = f.key}) = 1)

FieldNames(s) == {f.name : f \in Range(Struct(s))}
FieldNamed(s, n) == CHOOSE f \in Range(Struct(s)) : f.name = n
Keys(s) == {f.key : f \in Range(FieldsOf(s))}
FieldKeyed(s, k) == CHOOSE f \in Range(FieldsOf(s)) : f.key = k

(***************************************************************************)
(* Strings.  A character outside ASCII is written \uXXXX (four lower-case  *)
(* hex digits) and counts as one character; the strings hold no backslash  *)
(* of their own.  encoding/json matches a payload key with a field by      *)
(* Unicode simple case folding: besides A-Z with a-z, the long s (U+017F)  *)
(* folds with s and the Kelvin sign (U+212A) with k; every field key here  *)
(* is ASCII, so no other character outside ASCII can match.  Marshal       *)
(* writes the keys of a map in byte order.                                 *)
(***************************************************************************)
UpperAlpha == "ABCDEFGHIJKLMNOPQRSTUVWXYZ"
LowerAlpha == "abcdefghijklmnopqrstuvwxyz"
HexDigits == "0123456789abcdef"
\* The printable ASCII characters of keys in byte order.
Alphabet ==
  " !\"#$%&'()*+,-./0123456789:;<=>?@ABCDEFGHIJKLMNOPQRSTUVWXYZ[]^_abcdefghijklmnopqrstuvwxyz{|}~"
LongS == "\\u017f"
Kelvin == "\\u212a"

CharAt(s, i) == SubSeq(s, i, i)

RECURSIVE Runes(_)
\* The characters of a string, a \uXXXX taken as one.
Runes(s) ==
  IF Len(s) = 0 THEN <<>>
  ELSE IF Len(s) >= 6 /\ SubSeq(s, 1, 2) = "\\u"
       THEN <<SubSeq(s, 1, 6)>> \o Runes(SubSeq(s, 7, Len(s)))
       ELSE <<CharAt(s, 1)>> \o Runes(SubSeq(s, 2, Len(s)))

RECURSIVE Concat(_)
Concat(rs) == IF rs = <<>> THEN "" ELSE Head(rs) \o Concat(Tail(rs))

LowerChar(c) ==
  IF \E i \in 1..26 : CharAt(UpperAlpha, i) = c
  THEN CharAt(LowerAlpha, CHOOSE i \in 1..26 : CharAt(UpperAlpha, i) = c)
  ELSE IF c = LongS THEN "s"
  ELSE IF c = Kelvin THEN "k"
  ELSE c

UpperChar(c) ==
  IF \E i \in 1..26 : CharAt(LowerAlpha, i) = c
  THEN CharAt(UpperAlpha, CHOOSE i \in 1..26 : CharAt(LowerAlpha, i) = c)
  ELSE c

\* The key with its characters folded: two keys match when their folds do.
Fold(s) == LET rs == Runes(s) IN Concat([i \in DOMAIN rs |-> LowerChar(rs[i])])

Upper(s) == LET rs == Runes(s) IN Concat([i \in DOMAIN rs |-> UpperChar(rs[i])])

\* The key with every s written as a long s and every k as a Kelvin sign.
Exotic(s) ==
  LET rs == Runes(s)
  IN  Concat([i \in DOMAIN rs |->
                IF rs[i] = "s" THEN LongS ELSE IF rs[i] = "k" THEN Kelvin ELSE rs[i]])

HexValue(c) == (CHOOSE i \in 1..16 : CharAt(HexDigits, i) = c) - 1

\* The place of a character in byte order: ASCII first, then by code point.
Rank(c) ==
  IF Len(c) = 1
  THEN CHOOSE i \in 1..Len(Alphabet) : CharAt(Alphabet, i) = c
  ELSE Len(Alphabet) + 1 + 4096 * HexValue(CharAt(c, 3)) + 256 * HexValue(CharAt(c, 4))
         + 16 * HexValue(CharAt(c, 5)) + HexValue(CharAt(c, 6))

RECURSIVE SeqLess(_, _)
SeqLess(a, b) ==
  IF a = <<>> THEN b # <<>>
  ELSE IF b = <<>> THEN FALSE
  ELSE IF Head(a) = Head(b) THEN SeqLess(Tail(a), Tail(b))
  ELSE Rank(Head(a)) < Rank(Head(b))

StrLess(a, b) == SeqLess(Runes(a), Runes(b))

RECURSIVE SortedKeys(_)
\* The keys of a map in the order Marshal writes them.
SortedKeys(S) ==
  IF S = {} THEN <<>>
  ELSE LET m == CHOOSE x \in S : \A y \in S \ {x} : StrLess(x, y)
       IN  <<m>> \o SortedKeys(S \ {m})

(***************************************************************************)
(* Go values, tagged with their kind.  A float64 keeps twice its value in  *)
(* n (1.5 is n = 3); the integer kinds keep their value.  A number too     *)
(* large for n is named in s: 2^53 and 2^53+1 (int64 values, the second    *)
(* not a float64), 2^63 (a float64 beyond int64); in JSON also 1e400       *)
(* (beyond float64).  The elements of a []string are plain strings; those  *)
(* of a []interface{} and of a map[string]interface{} are tagged values    *)
(* again.                                                                  *)
(***************************************************************************)
IntKinds == {"int", "int64", "time.Duration"}

\* The named numbers an int, int64 or time.Duration holds (all are 64 bits
\* wide), and those a float64 holds.
BigInts == {"2^53", "2^53+1"}
BigFloats == {"2^53", "2^63"}
\* strconv.ParseFloat: the float64 nearest to a named number (ties to even).
NearestFloat64(big) == IF big = "2^53+1" THEN "2^53" ELSE big

Str(s) == [k |-> "string", s |-> s, n |-> 0, b |-> FALSE]
Num(kind, n) == [k |-> kind, s |-> "", n |-> n, b |-> FALSE]
BigNum(kind, big) == [k |-> kind, s |-> big, n |-> 0, b |-> FALSE]
Boolean(b) == [k |-> "bool", s |-> "", n |-> 0, b |-> b]
Nil == [k |-> "nil", s |-> "", n |-> 0, b |-> FALSE]
EmptyMap == [x \in {} |-> Nil]
\* A []string: its elements l and the array behind it, of which l is the front;
\* what lies beyond l is what was written there before the slice was cut.
SliceOver(isnil, l, back) == [k |-> "[]string", isnil |-> isnil, l |-> l, back |-> back]
\* A []string with nothing behind it but its elements.
Slice(isnil, l) == SliceOver(isnil, l, l)
List(isnil, l) == [k |-> "[]interface{}", isnil |-> isnil, l |-> l]
Map(kind, isnil, m) == [k |-> kind, isnil |-> isnil, m |-> m]

\* The zero value of a Go type.
Zero(type) ==
  CASE type = "string" -> Str("")
    [] type \in IntKinds -> Num(type, 0)
    [] type = "float64" -> Num("float64", 0)
    [] type = "bool" -> Boolean(FALSE)
    [] type = "[]string" -> Slice(TRUE, <<>>)
    [] type = "map[string]string" -> Map(type, TRUE, EmptyMap)
    [] type = "map[string]interface{}" -> Map(type, TRUE, EmptyMap)
    [] type = "interface{}" -> Nil

ZeroRecord(s) == [n \in FieldNames(s) |-> Zero(FieldNamed(s, n).type)]

\* encoding/json isEmptyValue: false, 0, a nil interface, and any empty
\* string, slice or map.
IsEmptyValue(v) ==
  CASE v.k = "string" -> v.s = ""
    [] v.k \in IntKinds \cup {"float64"} -> v.n = 0 /\ v.s = ""
    [] v.k = "bool" -> ~v.b
    [] v.k = "nil" -> TRUE
    [] v.k \in {"[]string", "[]interface{}"} -> Len(v.l) = 0
    [] v.k \in {"map[string]string", "map[string]interface{}"} -> DOMAIN v.m = {}

(***************************************************************************)
(* JSON values.  A number is exact: n2 is twice its value, or big names it *)
(* when n2 cannot hold it; int tells whether its literal is an integer     *)
(* literal (6, not 6.0 or 6e0).  An object is the sequence of its members  *)
(* as written, so a key may occur twice.                                   *)
(***************************************************************************)
JNull == [t |-> "null"]
JBool(b) == [t |-> "bool", b |-> b]
\* A number written as Marshal writes it: an integral value as an integer
\* literal (6 for the float64 6 too), another with its fraction (1.5).
JNum(n2) == [t |-> "num", n2 |-> n2, int |-> n2 % 2 = 0, big |-> ""]
\* A number written with a fraction or an exponent (6.0, 6e0, 1.5).
JFrac(n2) == [t |-> "num", n2 |-> n2, int |-> FALSE, big |-> ""]
\* A named number, written as an integer literal but for 1e400.
JBig(big) == [t |-> "num", n2 |-> 0, int |-> big # "1e400", big |-> big]
JStr(s) == [t |-> "str", s |-> s]
JArr(a) == [t |-> "arr", a |-> a]
JObj(o) == [t |-> "obj", o |-> o]
Member(key, val) == [key |-> key, val |-> val]

MemberKeys(ms) == {ms[i].key : i \in DOMAIN ms}
\* The value of the last member written under key k.
MemberValue(ms, k) ==
  ms[CHOOSE i \in DOMAIN ms : ms[i].key = k /\ \A j \in DOMAIN ms : ms[j].key = k => j <= i].val

\* json.Marshal of a scalar by its dynamic kind.
ScalarToJSON(v) ==
  CASE v.k = "string" -> JStr(v.s)
    [] v.k \in IntKinds \cup {"float64"} /\ v.s # "" -> JBig(v.s)
    [] v.k \in IntKinds -> JNum(2 * v.n)
    [] v.k = "float64" -> JNum(v.n)
    [] v.k = "bool" -> JBool(v.b)
    [] v.k = "nil" -> JNull

RECURSIVE ToJSON(_)
\* json.Marshal of a value: a nil slice or map is written as null, a map with
\* its keys sorted.
ToJSON(v) ==
  CASE v.k = "[]string" ->
         IF v.isnil THEN JNull ELSE JArr([i \in DOMAIN v.l |-> JStr(v.l[i])])
    [] v.k = "[]interface{}" ->
         IF v.isnil THEN JNull ELSE JArr([i \in DOMAIN v.l |-> ToJSON(v.l[i])])
    [] v.k = "map[string]string" ->
         IF v.isnil THEN JNull
         ELSE LET ks == SortedKeys(DOMAIN v.m)
              IN  JObj([i \in DOMAIN ks |-> Member(ks[i], JStr(v.m[ks[i]]))])
    [] v.k = "map[string]interface{}" ->
         IF v.isnil THEN JNull
         ELSE LET ks == SortedKeys(DOMAIN v.m)
              IN  JObj([i \in DOMAIN ks |-> Member(ks[i], ToJSON(v.m[ks[i]]))])
    [] OTHER -> ScalarToJSON(v)

Ok(v) == [ok |-> TRUE, v |-> v]
TypeError(cur) == [ok |-> FALSE, v |-> cur]

\* strconv.ParseInt of a number's literal succeeds: an integer literal within
\* 64 bits.
IntLiteral(j) == j.t = "num" /\ j.int /\ j.big \in {""} \cup BigInts
\* strconv.ParseFloat of a number's literal succeeds: within float64's range.
FloatLiteral(j) == j.t = "num" /\ j.big \in {""} \cup BigInts \cup BigFloats

IntFromJSON(type, j) == IF j.big = "" THEN Num(type, j.n2 \div 2) ELSE BigNum(type, j.big)
FloatFromJSON(j) ==
  IF j.big = "" THEN Num("float64", j.n2) ELSE BigNum("float64", NearestFloat64(j.big))

RECURSIVE InterfaceFromJSON(_)
\* json.Unmarshal into an interface{}: always a fresh value of the JSON value's
\* own kind: nil, bool, float64 (every number, rounded to the nearest float64;
\* one beyond float64 is a type error and leaves nil), string, []interface{},
\* map[string]interface{} (of a key written twice the last value stays).
InterfaceFromJSON(j) ==
  CASE j.t = "null" -> Ok(Nil)
    [] j.t = "bool" -> Ok(Boolean(j.b))
    [] j.t = "num" -> IF FloatLiteral(j) THEN Ok(FloatFromJSON(j)) ELSE TypeError(Nil)
    [] j.t = "str" -> Ok(Str(j.s))
    [] j.t = "arr" ->
         [ok |-> \A i \in DOMAIN j.a : InterfaceFromJSON(j.a[i]).ok,
          v |-> List(FALSE, [i \in DOMAIN j.a |-> InterfaceFromJSON(j.a[i]).v])]
    [] j.t = "obj" ->
         [ok |-> \A i \in DOMAIN j.o : InterfaceFromJSON(j.o[i].val).ok,
          v |-> Map("map[string]interface{}", FALSE,
                    [x \in MemberKeys(j.o) |-> InterfaceFromJSON(MemberValue(j.o, x)).v])]

\* json.Unmarshal of a JSON value into a scalar that holds cur: null leaves cur;
\* a JSON value of another type, a number that is no integer literal or exceeds
\* 64 bits for an integer, and a number beyond float64 for a float64 are an
\* UnmarshalTypeError and leave cur.
ScalarFromJSON(type, cur, j) ==
  CASE j.t = "null" -> Ok(cur)
    [] type = "string" -> IF j.t = "str" THEN Ok(Str(j.s)) ELSE TypeError(cur)
    [] type \in IntKinds -> IF IntLiteral(j) THEN Ok(IntFromJSON(type, j)) ELSE TypeError(cur)
    [] type = "float64" -> IF FloatLiteral(j) THEN Ok(FloatFromJSON(j)) ELSE TypeError(cur)
    [] type = "bool" -> IF j.t = "bool" THEN Ok(Boolean(j.b)) ELSE TypeError(cur)

\* json.Unmarshal of a JSON value into a field that holds cur.  An array is
\* decoded element by element into the slice's array (the slice is lengthened
\* over what its array already holds and cut to the array's length at the end;
\* an empty array gives a fresh empty slice); an object is decoded into the
\* present map, each entry into a fresh element.  A number beyond float64 for
\* an interface{} is a type error that leaves cur.
FromJSON(type, cur, j) ==
  CASE type = "interface{}" ->
         IF j.t = "num" /\ ~FloatLiteral(j) THEN TypeError(cur) ELSE InterfaceFromJSON(j)
    [] type = "[]string" ->
         CASE j.t = "null" -> Ok(Zero(type))
           [] j.t = "arr" ->
                LET el(i) == ScalarFromJSON("string",
                                            IF i <= Len(cur.back) THEN Str(cur.back[i])
                                                                  ELSE Str(""),
                                            j.a[i])
                    l == [i \in DOMAIN j.a |-> el(i).v.s]
                    rest == IF Len(j.a) = 0 \/ Len(cur.back) <= Len(j.a) THEN <<>>
                            ELSE SubSeq(cur.back, Len(j.a) + 1, Len(cur.back))
                IN  [ok |-> \A i \in DOMAIN j.a : el(i).ok,
                     v |-> SliceOver(FALSE, l, l \o rest)]
           [] OTHER -> TypeError(cur)
    [] type = "map[string]string" ->
         CASE j.t = "null" -> Ok(Zero(type))
           [] j.t = "obj" ->
                [ok |-> \A i \in DOMAIN j.o : ScalarFromJSON("string", Str(""), j.o[i].val).ok,
                 v |-> Map(type, FALSE,
                           [x \in DOMAIN cur.m \cup MemberKeys(j.o) |->
                              IF x \in MemberKeys(j.o)
                              THEN ScalarFromJSON("string", Str(""), MemberValue(j.o, x)).v.s
                              ELSE cur.m[x]])]
           [] OTHER -> TypeError(cur)
    [] type = "map[string]interface{}" ->
         CASE j.t = "null" -> Ok(Zero(type))
           [] j.t = "obj" ->
                [ok |-> \A i \in DOMAIN j.o : InterfaceFromJSON(j.o[i].val).ok,
                 v |-> Map(type, FALSE,
                           [x \in DOMAIN cur.m \cup MemberKeys(j.o) |->
                              IF x \in MemberKeys(j.o)
                              THEN InterfaceFromJSON(MemberValue(j.o, x)).v
                              ELSE cur.m[x]])]
           [] OTHER -> TypeError(cur)
    [] OTHER -> ScalarFromJSON(type, cur, j)

(***************************************************************************)
(* Payloads: nothing yet, a JSON object, a JSON value that is no object,   *)
(* or bytes that are not JSON.                                             *)
(***************************************************************************)
NoPayload == [kind |-> "none"]
Garbage == [kind |-> "garbage"]
Object(doc) == [kind |-> "object", doc |-> doc]
Value(j) == [kind |-> "value", val |-> j]

\* json.Marshal(record): one member per field in declaration order, omitempty
\* fields left out when empty.
Encode(s, r) ==
  LET fs == SelectSeq(FieldsOf(s), LAMBDA f : ~(f.omit /\ IsEmptyValue(r[f.name])))
  IN  Object([i \in DOMAIN fs |-> Member(fs[i].key, ToJSON(r[fs[i].name]))])

NoField == F("", "", "", FALSE)

\* The field a payload key is decoded into: the field tagged with exactly that
\* key, else the first field whose key matches it but for case, else none.
MatchField(s, key) ==
  IF key \in Keys(s) THEN FieldKeyed(s, key)
  ELSE LET fs == FieldsOf(s)
           hits == {i \in DOMAIN fs : Fold(fs[i].key) = Fold(key)}
       IN  IF hits = {} THEN NoField
           ELSE fs[CHOOSE i \in hits : \A h \in hits : i <= h]

RECURSIVE DecodeMembers(_, _, _)
\* The members of the payload decoded one after the other into the record: a
\* key that matches no field is skipped, the first type error is kept and the
\* remaining members are still decoded.
DecodeMembers(s, ms, acc) ==
  IF ms = <<>> THEN acc
  ELSE LET f == MatchField(s, Head(ms).key)
       IN  IF f = NoField
           THEN DecodeMembers(s, Tail(ms), acc)
           ELSE LET r == FromJSON(f.type, acc.val[f.name], Head(ms).val)
                IN  DecodeMembers(s, Tail(ms),
                                  [val |-> [acc.val EXCEPT ![f.name] = r.v],
                                   err |-> IF acc.err = "nil" /\ ~r.ok
                                           THEN "UnmarshalTypeError" ELSE acc.err])

\* json.Unmarshal(payload, &record) into a zero record: a field no member
\* matches stays zero; a body that is null leaves the record without error, any
\* other JSON value that is no object is a type error, bytes that are not JSON
\* a syntax error.
Decode(s, w) ==
  CASE w.kind = "object" -> DecodeMembers(s, w.doc, [val |-> ZeroRecord(s), err |-> "nil"])
    [] w.kind = "value" ->
         [val |-> ZeroRecord(s),
          err |-> IF w.val.t = "null" THEN "nil" ELSE "UnmarshalTypeError"]
    [] OTHER -> [val |-> ZeroRecord(s), err |-> "SyntaxError"]

(***************************************************************************)
(* Inputs: for every field its zero value and a typical value; lists and   *)
(* maps up to the bounds, nil and empty both; in a map[string]interface{}  *)
(* scalars of every kind and lists and maps nested up to MaxDepth.         *)
(***************************************************************************)
StringSample(key) ==
  CASE key \in {"hash", "cid", "content_hash", "ipns_hash"} -> "Qm123"
    [] key = "user_name" -> "alice"
    [] key = "network_name" -> "public"
    [] key = "hold_time_in_months" -> "6"
    [] key \in {"life_time", "ttl"} -> "24h"
    [] OTHER -> "x"

ListSamples ==
  {Slice(TRUE, <<>>)} \cup
  {Slice(FALSE, l) : l \in UNION {[1..n -> {"", "a"}] : n \in 0..MaxListLen}}

MapsOver(vals) ==
  UNION {[D -> vals] : D \in {E \in SUBSET {"k1", "k2"} : Cardinality(E) <= MaxMapKeys}}

ScalarSamples ==
  {Nil, Boolean(TRUE), Num("int", 6), Num("float64", 3), Str("6"), BigNum("int64", "2^53+1")}
ElementSamples == {Nil, Num("int", 6), Str("6")}

\* Lists and maps held in an interface{}, with elements among vals.
Composites(vals) ==
  {List(TRUE, <<>>), List(FALSE, <<>>), Slice(FALSE, <<"a">>),
   Map("map[string]interface{}", TRUE, EmptyMap),
   Map("map[string]interface{}", FALSE, EmptyMap)}
  \cup {List(FALSE, <<v>>) : v \in vals}
  \cup {Map("map[string]interface{}", FALSE, "a" :> v) : v \in vals}

RECURSIVE Nested(_)
Nested(d) == IF d = 0 THEN ElementSamples ELSE ElementSamples \cup Composites(Nested(d - 1))

\* Dynamic values put in a map[string]interface{}.
AnySamples ==
  ScalarSamples \cup (IF MaxDepth = 0 THEN {} ELSE Composites(Nested(MaxDepth - 1)))

Samples(f) ==
  CASE f.type = "string" -> {Str(""), Str(StringSample(f.key))}
    [] f.type \in IntKinds -> {Num(f.type, 0), Num(f.type, 6), BigNum(f.type, "2^53+1")}
    [] f.type = "float64" -> {Num("float64", 0), Num("float64", 3), BigNum("float64", "2^63")}
    [] f.type = "bool" -> {Boolean(FALSE), Boolean(TRUE)}
    [] f.type = "[]string" -> ListSamples
    [] f.type = "map[string]string" ->
         {Map(f.type, TRUE, EmptyMap)} \cup {Map(f.type, FALSE, m) : m \in MapsOver({"", "v"})}
    [] f.type = "map[string]interface{}" ->
         {Map(f.type, TRUE, EmptyMap)} \cup {Map(f.type, FALSE, m) : m \in MapsOver(AnySamples)}

RECURSIVE RecordsOver(_)
RecordsOver(fields) ==
  IF fields = <<>>
  THEN {EmptyMap}
  ELSE {(Head(fields).name :> v) @@ r : v \in Samples(Head(fields)),
                                        r \in RecordsOver(Tail(fields))}

\* The records a producer builds.
Records(s) == RecordsOver(Struct(s))

\* A record with every field set.
Typical(s) ==
  [n \in FieldNames(s) |->
     LET f == FieldNamed(s, n)
     IN  CASE f.type = "string" -> Str(StringSample(f.key))
           [] f.type \in IntKinds -> Num(f.type, 6)
           [] f.type = "float64" -> Num("float64", 3)
           [] f.type = "bool" -> Boolean(TRUE)
           [] f.type = "[]string" -> Slice(FALSE, <<"a">>)
           [] f.type = "map[string]string" -> Map(f.type, FALSE, "k1" :> "v")
           [] f.type = "map[string]interface{}" -> Map(f.type, FALSE, "k1" :> Str("6"))]

JSamples ==
  {JNull, JStr("6"), JNum(12), JNum(3), JFrac(12), JBig("2^53+1"), JBig("2^63"), JBig("1e400"),
   JBool(TRUE), JArr(<<JStr("")>>),
   JObj(<<Member("k1", JBig("2^53+1")), Member("k2", JArr(<<JBig("1e400")>>))>>),
   JObj(<<Member("k1", JArr(<<JStr("a"), JNum(12)>>)),
          Member("k2", JObj(<<Member("a", JNum(12))>>)),
          Member("k2", JObj(<<Member("b", JNull)>>))>>)}

\* Payloads of other producers: a typical payload with one member missing, with
\* one value of another JSON type, with one key in upper case or written with
\* the long s and the Kelvin sign, with a second member under the upper-case
\* key, with a list written three times (long, short, then nulls), or with a
\* key no field carries; the typical payload itself; a JSON value that is no
\* object; bytes that are not JSON.
ForeignPayloads(s) ==
  LET base == Encode(s, Typical(s)).doc
      I == DOMAIN base
  IN  {Object(SelectSeq([i \in I |-> IF i = d THEN Member("", JNull) ELSE base[i]],
                        LAMBDA m : m.key # "")) : d \in I}
      \cup {Object([base EXCEPT ![i].val = j]) : i \in I, j \in JSamples}
      \cup {Object([base EXCEPT ![i].key = Upper(base[i].key)]) : i \in I}
      \cup {Object([base EXCEPT ![i].key = Exotic(base[i].key)]) : i \in I}
      \cup {Object(Append(base, Member(Upper(base[i].key), j))) :
              i \in I, j \in {JNull, JStr("7")}}
      \cup {Object(base \o <<Member(base[i].key, JArr(<<JStr("b"), JStr("c")>>)),
                               Member(Upper(base[i].key), JArr(<<JStr("x")>>)),
                               Member(base[i].key, JArr(<<JNull, j>>))>>) :
              i \in {h \in I : base[h].val.t = "arr"}, j \in {JNull, JNum(12)}}
      \cup {Value(j) : j \in {JNull, JNum(12), JStr("x"), JBool(TRUE), JArr(<<>>)}}
      \cup {Object(base)}
      \cup {Object(Append(base, Member("extra", JStr("x")))), Garbage}

(***************************************************************************)
(* The queue each record type is sent on.  The source declares the queue   *)
(* names and the record types but holds no code that sends a record: the   *)
(* binding is that of the table of message records, one row per queue,     *)
(* with IPNSEntry and IPNSUpdate both in the row of the ipns entry queue.  *)
(***************************************************************************)
QueueOf(s) ==
  CASE s = "DatabaseFileAdd" -> "DatabaseFileAddQueue"
    [] s = "IPFSPin" -> "IpfsPinQueue"
    [] s = "IPFSFile" -> "IpfsFileQueue"
    [] s = "IPFSClusterPin" -> "IpfsClusterPinQueue"
    [] s = "EmailSend" -> "EmailSendQueue"
    [] s = "IPNSEntry" -> "IpnsEntryQueue"
    [] s = "IPNSUpdate" -> "IpnsEntryQueue"
    [] s = "IPFSKeyCreation" -> "IpfsKeyCreationQueue"
    [] s = "PaymentCreation" -> "PaymentCreationQueue"
    [] s = "PaymentConfirmation" -> "PaymentConfirmationQueue"
    [] s = "DashPaymenConfirmation" -> "DashPaymentConfirmationQueue"
    [] s = "MongoUpdate" -> "MongoUpdateQueue"
    [] s = "ZoneCreation" -> "ZoneCreationQueue"
    [] s = "RecordCreation" -> "RecordCreationQueue"

\* The record types whose producers publish to the queue named q.
SchemasOn(q) == {s \in Schemas : names[QueueOf(s)] = q}

(***************************************************************************)
(* State after package initialisation, and the steps of a producer and a   *)
(* consumer of one message.                                                *)
(***************************************************************************)
NoManager ==
  [Connection |-> "nil", Channel |-> "nil", Queue |-> "nil",
   QueueName |-> "", Service |-> "", ExchangeName |-> "", exclusive |-> FALSE]

NoResult == [op |-> "none", res |-> "none"]

InitCatalogue ==
  /\ names = [p \in Purposes |-> QueueName(p)]
  /\ nassign = 0

InitManager ==
  /\ mgr = NoManager
  /\ conn = "none"
  /\ ret = NoResult
  /\ ncalls = 0

Init ==
  /\ InitCatalogue
  /\ InitManager
  /\ schema \in Schemas
  /\ \/ pc = "built" /\ rec \in Records(schema)
     \/ pc = "idle" /\ rec = ZeroRecord(schema)
  /\ qname = ""
  /\ wire = NoPayload
  /\ origin = "none"
  /\ out = ZeroRecord(schema)
  /\ err = "nil"

\* The producer reads the queue name variable of its record's queue.
NameFor ==
  /\ pc = "built"
  /\ qname' = names[QueueOf(schema)]
  /\ pc' = "named"
  /\ UNCHANGED <<names, nassign, schema, rec, wire, origin, out, err, mgrVars>>

\* The producer serialises its record.
Marshal ==
  /\ pc = "named"
  /\ wire' = Encode(schema, rec)
  /\ origin' = "self"
  /\ pc' = "encoded"
  /\ UNCHANGED <<names, nassign, schema, rec, qname, out, err, mgrVars>>

\* A consumer with no record of its own, bound to the queue of its record type,
\* is handed a payload that a producer of that queue has published.
Receive ==
  /\ pc = "idle"
  /\ qname' = names[QueueOf(schema)]
  /\ \E p \in SchemasOn(qname') : wire' \in ForeignPayloads(p)
  /\ origin' = "foreign"
  /\ pc' = "encoded"
  /\ UNCHANGED <<names, nassign, schema, rec, out, err, mgrVars>>

\* The consumer deserialises the payload into a zero record of the queue's type.
Unmarshal ==
  /\ pc = "encoded"
  /\ out' = Decode(schema, wire).val
  /\ err' = Decode(schema, wire).err
  /\ pc' = "decoded"
  /\ UNCHANGED <<names, nassign, schema, rec, qname, wire, origin, mgrVars>>

Next == NameFor \/ Marshal \/ Receive \/ Unmarshal

Spec == Init /\ [][Next]_vars

(***************************************************************************)
(* User code of the package: the queue names are declared with var, so any *)
(* importing package can assign to them.                                   *)
(***************************************************************************)
AssignedNames == {"ipfs-pin-queue"}

AssignQueueName(p, s) ==
  /\ nassign < MaxAssign
  /\ names' = [names EXCEPT ![p] = s]
  /\ nassign' = nassign + 1
  /\ UNCHANGED <<codecVars, mgrVars>>

InitUser == Init /\ (pc = "built" => rec = Typical(schema))

NextUser ==
  \/ NameFor
  \/ Marshal
  \/ Receive
  \/ Unmarshal
  \/ \E p \in Purposes, s \in AssignedNames : AssignQueueName(p, s)

SpecUser == InitUser /\ [][NextUser]_vars

(***************************************************************************)
(* Manager (types.go 64-73).  The struct is declared here; its operations  *)
(* are described by the specification only: open, publish, consume, close. *)
(***************************************************************************)
Services == {"api", "queue"}
Exchanges == {"", "temporal"}

Result(op, res) == [op |-> op, res |-> res]

\* open: connects, opens a channel, declares and binds the named queue; fails
\* with a ConnectionError when the broker is unreachable or rejects the bind.
Open(p, svc, exch, exclusive, reachable) ==
  /\ mgr.Channel = "nil"
  /\ IF reachable
     THEN /\ mgr' = [Connection |-> "set", Channel |-> "open", Queue |-> "bound",
                     QueueName |-> names[p], Service |-> svc, ExchangeName |-> exch,
                     exclusive |-> exclusive]
          /\ conn' = "open"
          /\ ret' = Result("open", "ok")
     ELSE /\ ret' = Result("open", "ConnectionError")
          /\ UNCHANGED <<mgr, conn>>
  /\ UNCHANGED <<names, nassign, codecVars, ncalls>>

\* publish: serialises the record and sends it on the bound queue; fails with a
\* PublishError when the channel is closed or the broker rejects the delivery.
Publish(accepted) ==
  /\ mgr.Channel # "nil"
  /\ ncalls < MaxCalls
  /\ ncalls' = ncalls + 1
  /\ ret' = Result("publish",
                   IF mgr.Channel = "open" /\ accepted THEN "ok" ELSE "PublishError")
  /\ UNCHANGED <<names, nassign, codecVars, mgr, conn>>

\* consume: yields deliveries while the channel is open; on a closed channel it
\* signals channel-closed.
Consume ==
  /\ mgr.Channel # "nil"
  /\ ncalls < MaxCalls
  /\ ncalls' = ncalls + 1
  /\ ret' = Result("consume", IF mgr.Channel = "open" THEN "delivery" ELSE "ChannelClosed")
  /\ UNCHANGED <<names, nassign, codecVars, mgr, conn>>

\* A close that reports the already closed channel, as a broker client does.
CloseOnce ==
  /\ mgr.Channel # "nil"
  /\ ncalls < MaxCalls
  /\ ncalls' = ncalls + 1
  /\ IF mgr.Channel = "closed"
     THEN /\ ret' = Result("close", "ErrClosed")
          /\ UNCHANGED <<mgr, conn>>
     ELSE /\ mgr' = [mgr EXCEPT !.Channel = "closed"]
          /\ conn' = IF mgr.exclusive THEN "closed" ELSE conn
          /\ ret' = Result("close", "ok")
  /\ UNCHANGED <<names, nassign, codecVars>>

\* close: releases the channel and, if exclusively owned, the connection;
\* closing twice is a no-op, never an error.
Close ==
  /\ mgr.Channel # "nil"
  /\ ncalls < MaxCalls
  /\ ncalls' = ncalls + 1
  /\ mgr' = [mgr EXCEPT !.Channel = "closed"]
  /\ conn' = IF mgr.exclusive THEN "closed" ELSE conn
  /\ ret' = Result("close", "ok")
  /\ UNCHANGED <<names, nassign, codecVars>>

InitMgr == Init /\ schema = "IPFSPin" /\ pc = "idle"

NextMgr ==
  \/ \E p \in Purposes, svc \in Services, exch \in Exchanges,
        exclusive \in BOOLEAN, reachable \in BOOLEAN :
       Open(p, svc, exch, exclusive, reachable)
  \/ \E accepted \in BOOLEAN : Publish(accepted)
  \/ Consume
  \/ Close

SpecManager == InitMgr /\ [][NextMgr]_vars

(***************************************************************************)
(* Properties                                                              *)
(***************************************************************************)
Encoded == pc \in {"encoded", "decoded"} /\ origin = "self"
Decoded == pc = "decoded" /\ origin = "self"

\* The payload is an object with a member whose key is k but for case.
HasMember(k) ==
  wire.kind = "object" /\ \E i \in DOMAIN wire.doc : Fold(wire.doc[i].key) = k
WireKeys == MemberKeys(wire.doc)
WireValue(k) == MemberValue(wire.doc, k)
\* The members of the payload whose key is k but for case.
WireMembers(k) == {wire.doc[i] : i \in {h \in DOMAIN wire.doc : Fold(wire.doc[h].key) = k}}

RECURSIVE Native(_)
\* A dynamic value that has a JSON form of its own: nil, a bool, a float64, a
\* string, or a non-nil []interface{} or map[string]interface{} of such values.
Native(v) ==
  CASE v.k \in {"nil", "bool", "float64", "string"} -> TRUE
    [] v.k = "[]interface{}" -> ~v.isnil /\ \A i \in DOMAIN v.l : Native(v.l[i])
    [] v.k = "map[string]interface{}" -> ~v.isnil /\ \A x \in DOMAIN v.m : Native(v.m[x])
    [] OTHER -> FALSE

\* A record whose values all have a JSON form of their own: every dynamic
\* metaData value is native, and emails is not an empty but non-nil list.
JSONNative(s, r) ==
  /\ s = "RecordCreation" =>
       \A x \in DOMAIN r["MetaData"].m : Native(r["MetaData"].m[x])
  /\ s = "EmailSend" => (r["Emails"].isnil \/ Len(r["Emails"].l) > 0)

RECURSIVE Nativised(_)
\* The native value a dynamic value comes back as: an integer as the float64
\* nearest to it (the same number up to 2^53), a nil list or map as nil, a
\* []string as the []interface{} of its strings, and so on inside lists and maps.
Nativised(v) ==
  CASE v.k \in IntKinds ->
         IF v.s = "" THEN Num("float64", 2 * v.n) ELSE BigNum("float64", NearestFloat64(v.s))
    [] v.k = "[]string" ->
         IF v.isnil THEN Nil ELSE List(FALSE, [i \in DOMAIN v.l |-> Str(v.l[i])])
    [] v.k = "[]interface{}" ->
         IF v.isnil THEN Nil ELSE List(FALSE, [i \in DOMAIN v.l |-> Nativised(v.l[i])])
    [] v.k = "map[string]interface{}" ->
         IF v.isnil THEN Nil ELSE Map(v.k, FALSE, [x \in DOMAIN v.m |-> Nativised(v.m[x])])
    [] OTHER -> v

\* Equality of two values of one field, lists compared by their elements alone
\* (an absent list and an empty one alike: the reading most favourable to C1).
SameValue(a, b) == a = b \/ (a.k = "[]string" /\ b.k = "[]string" /\ a.l = b.l)

Whitespace == {" ", "\t", "\n", "\r"}

\* C2: every queue name of the catalogue is non-empty, holds no whitespace and
\* differs from every other queue name; there are 13 of them.
QueueNamesWellFormed ==
  /\ Cardinality(DOMAIN names) = 13
  /\ \A p \in DOMAIN names :
       /\ Len(names[p]) > 0
       /\ \A i \in 1..Len(names[p]) : SubSeq(names[p], i, i) \notin Whitespace
       /\ \A q \in DOMAIN names \ {p} : names[q] # names[p]

\* C2 witness: a producer has read the cluster pin queue's name.
QueueNamesWitness ==
  pc = "named" /\ schema = "IPFSClusterPin" /\ qname = "ipfs-cluster-add-queue"

\* C3 as stated: whatever the users of the package do, every queue name keeps
\* the value it had at process start, and a lookup returns that value.
QueueNamesImmutable ==
  /\ \A p \in Purposes : names[p] = QueueName(p)
  /\ pc = "named" => qname = QueueName(QueueOf(schema))

\* C4 as stated: decoding as IPFSPin a JSON payload that has no member for cid
\* (none whose key matches cid, whatever the case of its letters) yields a
\* decode error.
MissingCidIsDecodeError ==
  (pc = "decoded" /\ schema = "IPFSPin" /\ wire.kind \in {"object", "value"}
     /\ ~HasMember("cid")) => err # "nil"

\* C5 as stated: every encoded record carries a user_name or a network_name.
EveryRecordCarriesIdentity ==
  Encoded => ("user_name" \in WireKeys \/ "network_name" \in WireKeys)

\* C5 as amended: every record type except MongoUpdate and EmailSend has a
\* userName field, always present on the wire; MongoUpdate and EmailSend have
\* neither a userName nor a networkName field (EmailSend has the list userNames).
IdentityExceptMongoAndEmail ==
  /\ ("UserName" \in FieldNames(schema)) <=> (schema \notin {"MongoUpdate", "EmailSend"})
  /\ schema \in {"MongoUpdate", "EmailSend"} => "NetworkName" \notin FieldNames(schema)
  /\ Encoded =>
       /\ ("user_name" \in WireKeys) <=> (schema \notin {"MongoUpdate", "EmailSend"})
       /\ "network_name" \in WireKeys => "user_name" \in WireKeys
       /\ schema = "EmailSend" => "user_names" \in WireKeys

\* C5 witness: an encoded MongoUpdate carries no identity key.
IdentityWitness ==
  /\ Encoded /\ schema = "MongoUpdate"
  /\ WireKeys = {"database_name", "collection_name", "fields"}

\* A producer has read the name of its queue, or a consumer is bound to its queue.
Bound == pc = "named" \/ origin = "foreign"

TypicalWithout(s, key) ==
  Object(SelectSeq(Encode(s, Typical(s)).doc, LAMBDA m : m.key # key))

\* C7: an EmailSend without emails is encoded with no member for emails and
\* decoded back without error to a nil emails list; any payload with no member
\* for emails (no key that matches emails but for case) decodes to a nil emails
\* list, and without error when its other members are well-typed.
EmailsOmittedWhenAbsent ==
  schema = "EmailSend" =>
    /\ (Encoded /\ Len(rec["Emails"].l) = 0) => ~HasMember("emails")
    /\ (Decoded /\ Len(rec["Emails"].l) = 0) =>
         (err = "nil" /\ out["Emails"] = Slice(TRUE, <<>>))
    /\ (pc = "decoded" /\ ~HasMember("emails")) =>
         /\ out["Emails"] = Slice(TRUE, <<>>)
         /\ wire \in {TypicalWithout(schema, "emails"), Value(JNull)} => err = "nil"

\* C7 witness: a consumer has decoded as EmailSend a payload with user names and
\* no emails member, without error and to a nil emails list.
EmailsWitness ==
  /\ pc = "decoded" /\ schema = "EmailSend" /\ origin = "foreign"
  /\ wire = Object(<<Member("subject", JStr("x")),
                     Member("content", JStr("x")),
                     Member("content_type", JStr("x")),
                     Member("user_names", JArr(<<JStr("a")>>))>>)
  /\ out["Emails"].isnil /\ out["UserNames"] = Slice(FALSE, <<"a">>) /\ err = "nil"

IntHoldSchemas == {"IPFSPin", "IPFSClusterPin", "DatabaseFileAdd"}

\* C8: the hold time of an IPFSFile is a string in the record, on the wire and
\* after decoding; that of IPFSPin, IPFSClusterPin and DatabaseFileAdd is an
\* integer in all three; a number in a payload is never decoded into the string
\* nor a string into the integer: either is a type error (as is a number that
\* is no integer literal for the integer), and the decoded hold time is the
\* zero value or the value of a member of the field's own type.
HoldTimeKeepsRepresentation ==
  LET k == "hold_time_in_months"
      n == "HoldTimeInMonths"
  IN  /\ (schema = "IPFSFile" /\ Encoded) =>
           /\ rec[n].k = "string"
           /\ WireValue(k) = JStr(rec[n].s)
           /\ pc = "decoded" => out[n] = rec[n]
      /\ (schema \in IntHoldSchemas /\ Encoded) =>
           /\ rec[n].k = "int64"
           /\ WireValue(k) = IF rec[n].s = "" THEN JNum(2 * rec[n].n) ELSE JBig(rec[n].s)
           /\ WireValue(k).int
           /\ pc = "decoded" => out[n] = rec[n]
      /\ (pc = "decoded" /\ wire.kind = "object" /\ schema = "IPFSFile") =>
           /\ (\E m \in WireMembers(k) : m.val.t \notin {"str", "null"}) =>
                err = "UnmarshalTypeError"
           /\ out[n] \in {Str("")} \cup
                         {Str(m.val.s) : m \in {x \in WireMembers(k) : x.val.t = "str"}}
      /\ (pc = "decoded" /\ wire.kind = "object" /\ schema \in IntHoldSchemas) =>
           /\ (\E m \in WireMembers(k) : m.val.t # "null" /\ ~IntLiteral(m.val)) =>
                err = "UnmarshalTypeError"
           /\ out[n] \in {Num("int64", 0)} \cup
                         {IntFromJSON("int64", m.val) :
                            m \in {x \in WireMembers(k) : IntLiteral(x.val)}}

\* C8 witness: an IPFSFile with hold time "6" has made the round trip as "6".
HoldTimeWitness ==
  /\ Decoded /\ schema = "IPFSFile"
  /\ rec["HoldTimeInMonths"] = Str("6")
  /\ WireValue("hold_time_in_months") = JStr("6")
  /\ out["HoldTimeInMonths"] = Str("6")

\* C9: a close of a Manager whose channel is already closed returns ok and
\* leaves the Manager and its connection as they were.
CloseIdempotent ==
  [][(mgr.Channel = "closed" /\ ncalls' = ncalls + 1 /\ ret'.op = "close") =>
       (ret'.res = "ok" /\ mgr' = mgr /\ conn' = conn)]_vars

\* C9 witness: a Manager has been closed twice in succession.
CloseTwiceWitness ==
  mgr.Channel = "closed" /\ ncalls = 2 /\ ret = Result("close", "ok") /\ conn = "closed"

IpnsWireFields ==
  {"cid", "life_time", "ttl", "resolve", "key", "user_name", "network_name", "credit_cost"}

\* C10 as stated: IPNSEntry and IPNSUpdate are encoded under the same eight keys.
IpnsVariantsSameKeys ==
  (Encoded /\ schema \in {"IPNSEntry", "IPNSUpdate"}) => WireKeys = IpnsWireFields

\* C10 as amended: IPNSEntry is encoded under the eight keys; IPNSUpdate under
\* the same keys except that the content identifier is under content_hash
\* instead of cid and that it has the further key ipns_hash; the shared keys
\* have the same JSON type in both but life_time and ttl, numbers in IPNSEntry
\* and strings in IPNSUpdate.
IpnsVariantsKeys ==
  (Encoded /\ schema \in {"IPNSEntry", "IPNSUpdate"}) =>
    /\ Len(wire.doc) = Cardinality(WireKeys)
    /\ schema = "IPNSEntry" =>
         /\ WireKeys = IpnsWireFields
         /\ WireValue("cid").t = "str"
         /\ WireValue("life_time").t = "num" /\ WireValue("ttl").t = "num"
    /\ schema = "IPNSUpdate" =>
         /\ WireKeys = (IpnsWireFields \ {"cid"}) \cup {"content_hash", "ipns_hash"}
         /\ WireValue("content_hash") = JStr(rec["CID"].s)
         /\ WireValue("life_time").t = "str" /\ WireValue("ttl").t = "str"
    /\ WireValue("resolve").t = "bool"
    /\ WireValue("credit_cost").t = "num"
    /\ \A k \in {"key", "user_name", "network_name"} : WireValue(k).t = "str"

\* C10 witness: an IPNSUpdate has been encoded with its content identifier under
\* content_hash.
IpnsWitness ==
  /\ Encoded /\ schema = "IPNSUpdate"
  /\ rec["CID"] = Str("Qm123")
  /\ WireValue("content_hash") = JStr("Qm123")
  /\ "cid" \notin WireKeys
====
